---- MODULE Spec2Model ----
(***************************************************************************)
(* Crawl-and-upload pipeline of the AzureStuff repository:                 *)
(*   crawler.py        Crawler (link discovery, harvest, check_with_ai)    *)
(*                     and CrawledResult (the wrapper crawl_links returns) *)
(*   blob_uploader.py  BlobUploader (gather_data, get_container_name,      *)
(*                     create_or_update_blob, run)                         *)
(* Python str values are sequences of one-character strings, so that       *)
(* str.replace, str.rstrip, str.lower and the "in" substring test are      *)
(* computed character by character as Python computes them.  A Python dict *)
(* is a sequence of [k, v] entries in insertion order with unique keys.    *)
(***************************************************************************)
EXTENDS Integers, Sequences, FiniteSets, TLC

(* ------------------------------ bounds -------------------------------- *)

\* Most hrefs the page fetcher returns for the seed page.
MaxLinks == 2

\* Most objects a pre-existing container holds.
MaxOld == 2

\* Most entries of a content map handed directly to check_with_ai or to
\* create_or_update_blob.
MaxEntries == 2

(* ------------------------- character sequences ------------------------ *)

S_https == <<"h","t","t","p","s",":","/","/">>

S_http == <<"h","t","t","p",":","/","/">>

S_www == <<"w","w","w",".">>

S_example == <<"e","x","a","m","p","l","e">>

S_com == <<".","c","o","m">>

S_about == <<"/","a","b","o","u","t">>

S_docs == <<"/","d","o","c","s","/","g","e","t","t","i","n","g","-","s","t","a","r","t","e","d","/","i","n","s","t","a","l","l","a","t","i","o","n">>

S_slash_ubuntu == <<"/","u","b","u","n","t","u","-","2","2">>

S_under_ubuntu == <<"_","u","b","u","n","t","u","-","2","2">>

S_blog_uk == <<"b","l","o","g",".","e","x","a","m","p","l","e",".","c","o",".","u","k">>

S_txt == <<".","t","x","t">>

S_useless == <<"u","s","e","l","e","s","s">>

\* The seed URLs a run is started with.
Seeds ==
    { S_https \o S_www \o S_example \o S_com \o <<"/">>,
      S_https \o S_blog_uk \o <<"/">> }

\* The hrefs the page fetcher may report as internal links.
Hrefs ==
    { S_https \o S_www \o S_example \o S_com \o S_about,
      S_https \o S_www \o S_example \o S_com \o S_about \o <<"/">>,
      S_https \o S_example \o S_com \o S_about,
      S_http \o S_www \o S_example \o S_com \o S_about,
      S_https \o S_www \o S_example \o S_com \o S_docs \o S_slash_ubuntu,
      S_https \o S_www \o S_example \o S_com \o S_docs \o S_under_ubuntu }

\* The body texts (result.markdown) the page fetcher may return.
Bodies == { "page text 1", "page text 2" }

\* The texts the classification oracle may answer with.
Responses ==
    { S_useless,
      <<"u","s","e","f","u","l">>,
      <<"T","h","i","s"," ","i","s"," ","U","S","E","L","E","S","S",".">>,
      <<"U","s","e","L","e","s","s">>,
      <<"u","s","e"," ","l","e","s","s">> }

(* ------------------------------ str ----------------------------------- *)

\* s[from:] of Python, 1-based.
Drop(s, n) == SubSeq(s, n + 1, Len(s))

StartsWith(s, p) == Len(s) >= Len(p) /\ SubSeq(s, 1, Len(p)) = p

\* s[i:] with the occurrences of old replaced, scanning from the left.
RECURSIVE ReplaceFrom(_, _, _, _)
ReplaceFrom(s, i, old, new) ==
    IF i + Len(old) - 1 > Len(s) THEN SubSeq(s, i, Len(s))
    ELSE IF SubSeq(s, i, i + Len(old) - 1) = old
         THEN new \o ReplaceFrom(s, i + Len(old), old, new)
    ELSE <<s[i]>> \o ReplaceFrom(s, i + 1, old, new)

\* str.replace(old, new): leftmost non-overlapping occurrences.
Replace(s, old, new) == ReplaceFrom(s, 1, old, new)

\* str.rstrip(c): every trailing c removed.
RECURSIVE Rstrip(_, _)
Rstrip(s, c) ==
    IF s # <<>> /\ s[Len(s)] = c THEN Rstrip(SubSeq(s, 1, Len(s) - 1), c) ELSE s

\* sub in s
Contains(s, sub) ==
    \E i \in 0..(Len(s) - Len(sub)) : SubSeq(s, i + 1, i + Len(sub)) = sub

\* Index of the first c in s, 0 when there is none (str.find + 1).
Find(s, c) ==
    IF \E i \in 1..Len(s) : s[i] = c
    THEN CHOOSE i \in 1..Len(s) : s[i] = c /\ \A j \in 1..(i - 1) : s[j] # c
    ELSE 0

LowerChar(c) ==
    CASE c = "U" -> "u" [] c = "S" -> "s" [] c = "E" -> "e" [] c = "L" -> "l"
      [] c = "T" -> "t" [] c = "F" -> "f" [] OTHER -> c

\* str.lower()
Lower(s) == [i \in 1..Len(s) |-> LowerChar(s[i])]

(* ------------------------------ dict ---------------------------------- *)

Keys(d) == { d[i].k : i \in 1..Len(d) }

DictGet(d, key) == d[CHOOSE i \in 1..Len(d) : d[i].k = key].v

\* A variant of DictSet that keeps the value already stored under a key.
DictSetKeepFirst(d, key, value) ==
    IF key \in Keys(d) THEN d ELSE Append(d, [k |-> key, v |-> value])

\* d[key] = value: a present key keeps its place and takes the new value.
DictSet(d, key, value) ==
    IF key \in Keys(d)
    THEN [i \in 1..Len(d) |-> IF d[i].k = key THEN [k |-> key, v |-> value] ELSE d[i]]
    ELSE Append(d, [k |-> key, v |-> value])

\* d.pop(key, None)
DictPop(d, key) == SelectSeq(d, LAMBDA e : e.k # key)

(* --------------------------- key derivation --------------------------- *)

\* short_link of _async_crawl_links.
short_link(link) ==
    Replace(
        Replace(
            Replace(
                Replace(link, S_https \o S_www, <<>>),
                S_com, <<>>),
            <<"h","t","t","p","s",":">>, <<>>),
        <<"/">>, <<"_">>)

(* --------------------------- container name --------------------------- *)

\* urlparse(url).netloc: what follows "//" after the scheme, up to the
\* first "/", "?" or "#".
Netloc(url) ==
    LET colon == Find(url, ":")
        rest  == IF colon > 0 /\ StartsWith(Drop(url, colon), <<"/","/">>)
                 THEN Drop(url, colon + 2)
                 ELSE IF StartsWith(url, <<"/","/">>) THEN Drop(url, 2)
                 ELSE <<>>
        stops == { i \in 1..Len(rest) : rest[i] \in {"/", "?", "#"} }
        stop  == IF stops = {} THEN Len(rest) + 1
                 ELSE CHOOSE i \in stops : \A j \in stops : i <= j
    IN  IF rest = <<>> THEN <<>> ELSE SubSeq(rest, 1, stop - 1)

\* BlobUploader.get_container_name
get_container_name(url) ==
    LET netloc == Netloc(url)
        host   == IF StartsWith(netloc, S_www) THEN Drop(netloc, 4) ELSE netloc
        dot    == Find(host, ".")
    IN  IF dot = 0 THEN host ELSE SubSeq(host, 1, dot - 1)

(* ------------------------------ state --------------------------------- *)

VARIABLES
    pc,               \* where the call in progress stands
    failed,           \* the stage whose exception ended the call, or "none"
    website_link,     \* BlobUploader.website_link
    files,            \* BlobUploader.files: [kind, data]
    sessions,         \* the fetch-engine sessions that are open
    inflight,         \* the fetches awaited and not yet returned
    link_set,         \* link_set of _async_crawl_links
    todo,             \* the links the for loop has not reached yet
    cur,              \* the link of the fetch in flight
    clean_data_dict,  \* the dict being harvested or curated
    keys_to_remove,   \* keys_to_remove of check_with_ai
    idx,              \* entries the loop in progress has passed
    container_name,   \* container_name of run
    container,        \* the storage account's container: [exists, blobs]
    to_delete,        \* names list_blobs gave that are not deleted yet
    events,           \* history: the calls made to the collaborators
    stored,           \* history: [link, key, body] of every harvest store
    oracleLog,        \* history: [key, response, ok] of every oracle call
    dict0,            \* history: the content map as handed in
    container0        \* history: the container as the call found it

vars == << pc, failed, website_link, files, sessions, inflight, link_set, todo,
           cur, clean_data_dict, keys_to_remove, idx, container_name, container,
           to_delete, events, stored, oracleLog, dict0, container0 >>

Ev(name, arg) == [ev |-> name, arg |-> arg]

\* value.encode("utf-8")
EncodeUtf8(value) == [bytes |-> "utf-8", of |-> value]

\* f"{key}.txt"
BlobName(key) == key \o S_txt

NoBlobs == [n \in {} |-> 0]

\* What a container may hold before the call.
OldNames ==
    { <<"o","l","d",".","t","x","t">>,
      <<"i","n","d","e","x",".","h","t","m","l">>,
      BlobName(short_link(S_https \o S_www \o S_example \o S_com \o S_about)) }

OldData == [bytes |-> "stale", of |-> "old object"]

Containers ==
    { [exists |-> FALSE, blobs |-> NoBlobs] } \cup
    { [exists |-> TRUE, blobs |-> [n \in N |-> OldData]] :
        N \in { M \in SUBSET OldNames : Cardinality(M) <= MaxOld } }

(* ------------------------------ Init ---------------------------------- *)

\* The lists result.links["internal"] of the seed page may be.
HrefLists == UNION { [1..n -> Hrefs] : n \in 0..MaxLinks }

\* BlobUploader.__init__: the state a run starts from.
Init ==
    /\ pc = "new"
    /\ failed = "none"
    /\ website_link \in Seeds
    /\ files = [kind |-> "dict", data |-> <<>>]
    /\ sessions = {}
    /\ inflight = 0
    /\ link_set = {}
    /\ todo = {}
    /\ cur = <<>>
    /\ clean_data_dict = <<>>
    /\ keys_to_remove = <<>>
    /\ idx = 0
    /\ container_name = <<>>
    /\ container \in Containers
    /\ to_delete = {}
    /\ events = <<>>
    /\ stored = <<>>
    /\ oracleLog = <<>>
    /\ dict0 = <<>>
    /\ container0 = container

harvestVars == << link_set, todo, cur, clean_data_dict, stored, inflight >>

sinkVars == << container_name, container, to_delete, container0 >>

curateVars == << keys_to_remove, oracleLog, dict0 >>

(* --------------------------- BlobUploader.run ------------------------- *)

\* A variant of RunGatherData that makes sure of the container first.
RunCreateThenGather ==
    /\ pc = "new"
    /\ pc' = "gather"
    /\ container' = IF container.exists THEN container
                    ELSE [exists |-> TRUE, blobs |-> NoBlobs]
    /\ UNCHANGED << failed, website_link, files, idx, sessions, harvestVars,
                    container_name, to_delete, container0, events, curateVars >>

\* run calls gather_data first, which calls Crawler().crawl_links and so
\* asyncio.run(_async_crawl_links(websiteURL)).
RunGatherData ==
    /\ pc = "new"
    /\ pc' = "gather"
    /\ UNCHANGED << failed, website_link, files, idx, sessions, harvestVars,
                    sinkVars, events, curateVars >>

(* ----------------------- Crawler._async_get_links --------------------- *)

\* _async_crawl_links awaits _async_get_links:
\* "async with AsyncWebCrawler(verbose=True) as crawler" is entered.
OpenDiscoverySession ==
    /\ pc = "gather"
    /\ pc' = "discover"
    /\ sessions' = sessions \cup {"discovery"}
    /\ events' = Append(events, Ev("open_discovery", <<>>))
    /\ UNCHANGED << failed, website_link, files, idx, harvestVars, sinkVars, curateVars >>

\* crawler.arun(url=websiteURL, ...) returns; the async with block is left
\* and the set comprehension strips the trailing slashes.
DiscoverOk ==
    /\ pc = "discover"
    /\ \E hrefs \in HrefLists :
          link_set' = { Rstrip(hrefs[i], "/") : i \in 1..Len(hrefs) }
    /\ pc' = "links"
    /\ sessions' = sessions \ {"discovery"}
    /\ events' = events \o << Ev("discover", website_link), Ev("close_discovery", <<>>) >>
    /\ UNCHANGED << failed, website_link, files, idx, todo, cur, clean_data_dict,
                    stored, inflight, sinkVars, curateVars >>

\* crawler.arun raises on the seed page: the async with block closes the
\* session and the exception leaves run.
DiscoverFail ==
    /\ pc = "discover"
    /\ pc' = "failed"
    /\ failed' = "discovery"
    /\ sessions' = sessions \ {"discovery"}
    /\ events' = events \o << Ev("discover", website_link), Ev("close_discovery", <<>>) >>
    /\ UNCHANGED << website_link, files, idx, harvestVars, sinkVars, curateVars >>

(* ---------------------- Crawler._async_crawl_links -------------------- *)

\* clean_data_dict = {} and "async with AsyncWebCrawler() as crawler".
OpenHarvestSession ==
    /\ pc = "links"
    /\ pc' = "loop"
    /\ clean_data_dict' = <<>>
    /\ todo' = link_set
    /\ sessions' = sessions \cup {"harvest"}
    /\ events' = Append(events, Ev("open_harvest", <<>>))
    /\ UNCHANGED << failed, website_link, files, idx, link_set, cur, stored,
                    inflight, sinkVars, curateVars >>

\* "for link in link_set": the next link, in the set's iteration order, and
\* "await crawler.arun(url=link, ...)" is issued.
FetchStart ==
    /\ pc = "loop"
    /\ \E link \in todo :
          /\ cur' = link
          /\ todo' = todo \ {link}
          /\ events' = Append(events, Ev("fetch_start", link))
    /\ pc' = "await"
    /\ inflight' = inflight + 1
    /\ UNCHANGED << failed, website_link, files, idx, sessions, link_set,
                    clean_data_dict, stored, sinkVars, curateVars >>

\* The awaited arun returns: clean_data_dict[short_link] = result.markdown.
FetchOk ==
    /\ pc = "await"
    /\ LET key == short_link(cur) IN
       \E body \in Bodies :
          /\ clean_data_dict' = DictSet(clean_data_dict, key, body)
          /\ stored' = Append(stored, [link |-> cur, key |-> key, body |-> body])
    /\ pc' = "loop"
    /\ inflight' = inflight - 1
    /\ events' = Append(events, Ev("fetch_end", cur))
    /\ UNCHANGED << failed, website_link, files, idx, sessions, link_set, todo, cur,
                    sinkVars, curateVars >>

\* A variant of FetchFail that leaves the session open.
FetchFailLeak ==
    /\ pc = "await"
    /\ pc' = "failed"
    /\ failed' = "harvest"
    /\ inflight' = inflight - 1
    /\ events' = Append(events, Ev("fetch_raise", cur))
    /\ UNCHANGED << website_link, files, idx, sessions, link_set, todo, cur,
                    clean_data_dict, stored, sinkVars, curateVars >>

\* The awaited arun raises: the async with block closes the session and the
\* exception leaves run.
FetchFail ==
    /\ pc = "await"
    /\ pc' = "failed"
    /\ failed' = "harvest"
    /\ inflight' = inflight - 1
    /\ sessions' = sessions \ {"harvest"}
    /\ events' = events \o << Ev("fetch_raise", cur), Ev("close_harvest", <<>>) >>
    /\ UNCHANGED << website_link, files, idx, link_set, todo, cur, clean_data_dict,
                    stored, sinkVars, curateVars >>

\* A variant of HarvestDone that returns after the first pass of the loop.
HarvestDoneEarly ==
    /\ pc = "loop"
    /\ todo = {} \/ clean_data_dict # <<>>
    /\ pc' = "name"
    /\ sessions' = sessions \ {"harvest"}
    /\ files' = [kind |-> "CrawledResult", data |-> clean_data_dict]
    /\ events' = Append(events, Ev("close_harvest", <<>>))
    /\ UNCHANGED << failed, website_link, idx, harvestVars, sinkVars, curateVars >>

\* The loop is exhausted: the async with block closes the session,
\* _async_crawl_links returns the dict, crawl_links wraps it in a
\* CrawledResult and gather_data stores that object in self.files.
HarvestDone ==
    /\ pc = "loop"
    /\ todo = {}
    /\ pc' = "name"
    /\ sessions' = sessions \ {"harvest"}
    /\ files' = [kind |-> "CrawledResult", data |-> clean_data_dict]
    /\ events' = Append(events, Ev("close_harvest", <<>>))
    /\ UNCHANGED << failed, website_link, idx, harvestVars, sinkVars, curateVars >>

(* ----------------------------- BlobUploader --------------------------- *)

\* container_name = self.get_container_name()
DeriveContainerName ==
    /\ pc = "name"
    /\ pc' = "create"
    /\ container_name' = get_container_name(website_link)
    /\ UNCHANGED << failed, website_link, files, idx, sessions, harvestVars,
                    container, to_delete, container0, events, curateVars >>

\* create_container succeeds: the container did not exist.
CreateContainerNew ==
    /\ pc = "create"
    /\ ~container.exists
    /\ container' = [exists |-> TRUE, blobs |-> NoBlobs]
    /\ pc' = "upload"
    /\ idx' = 0
    /\ events' = Append(events, Ev("create_container", container_name))
    /\ UNCHANGED << failed, website_link, files, sessions, harvestVars,
                    container_name, to_delete, container0, curateVars >>

\* create_container raises ResourceExistsError, which is caught:
\* container_client.list_blobs() names what is to be deleted.
CreateContainerExists ==
    /\ pc = "create"
    /\ container.exists
    /\ to_delete' = DOMAIN container.blobs
    /\ pc' = IF DOMAIN container.blobs = {} THEN "upload" ELSE "delete"
    /\ idx' = 0
    /\ events' = Append(events, Ev("container_exists", container_name))
    /\ UNCHANGED << failed, website_link, files, sessions, harvestVars,
                    container_name, container, container0, curateVars >>

\* create_container raises another error: it leaves run.
CreateContainerFail ==
    /\ pc = "create"
    /\ pc' = "failed"
    /\ failed' = "sink"
    /\ events' = Append(events, Ev("create_raise", container_name))
    /\ UNCHANGED << website_link, files, idx, sessions, harvestVars, sinkVars, curateVars >>

\* "for blob in container_client.list_blobs()": delete_blob(blob.name).
DeleteBlob ==
    /\ pc = "delete"
    /\ \E name \in to_delete :
          /\ to_delete' = to_delete \ {name}
          /\ container' = [container EXCEPT
                 !.blobs = [n \in (DOMAIN container.blobs) \ {name} |-> container.blobs[n]]]
          /\ events' = Append(events, Ev("delete_blob", name))
          /\ pc' = IF to_delete \ {name} = {} THEN "upload" ELSE "delete"
    /\ UNCHANGED << failed, website_link, files, idx, sessions, harvestVars,
                    container_name, container0, curateVars >>

\* delete_blob raises: the exception leaves run.
DeleteBlobFail ==
    /\ pc = "delete"
    /\ pc' = "failed"
    /\ failed' = "sink"
    /\ events' = Append(events, Ev("delete_raise", <<>>))
    /\ UNCHANGED << website_link, files, idx, sessions, harvestVars, sinkVars, curateVars >>

\* "for key, value in self.files.items()" with self.files a CrawledResult,
\* which has no items attribute: AttributeError leaves run.
UploadItemsAttributeError ==
    /\ pc = "upload"
    /\ files.kind = "CrawledResult"
    /\ pc' = "failed"
    /\ failed' = "sink"
    /\ events' = Append(events, Ev("attribute_error", <<>>))
    /\ UNCHANGED << website_link, files, idx, sessions, harvestVars, sinkVars, curateVars >>

\* A variant of UploadBlob that uploads without the .txt suffix.
UploadBlobBareName ==
    /\ pc = "upload"
    /\ files.kind = "dict"
    /\ idx < Len(files.data)
    /\ LET e == files.data[idx + 1] IN
          /\ e.k \notin DOMAIN container.blobs
          /\ container' = [container EXCEPT
                 !.blobs = (e.k :> EncodeUtf8(e.v)) @@ container.blobs]
          /\ events' = Append(events, Ev("upload_blob", e.k))
    /\ idx' = idx + 1
    /\ UNCHANGED << pc, failed, website_link, files, sessions, harvestVars,
                    container_name, to_delete, container0, curateVars >>

\* One pass of the upload loop: upload_blob(value.encode("utf-8")) to the
\* blob "<key>.txt".  upload_blob does not overwrite: it succeeds only when
\* no blob of that name exists.
UploadBlob ==
    /\ pc = "upload"
    /\ files.kind = "dict"
    /\ idx < Len(files.data)
    /\ LET e == files.data[idx + 1] IN
          /\ BlobName(e.k) \notin DOMAIN container.blobs
          /\ container' = [container EXCEPT
                 !.blobs = (BlobName(e.k) :> EncodeUtf8(e.v)) @@ container.blobs]
          /\ events' = Append(events, Ev("upload_blob", BlobName(e.k)))
    /\ idx' = idx + 1
    /\ UNCHANGED << pc, failed, website_link, files, sessions, harvestVars,
                    container_name, to_delete, container0, curateVars >>

\* upload_blob raises (the blob exists, or the service fails): the
\* exception leaves run.
UploadBlobFail ==
    /\ pc = "upload"
    /\ files.kind = "dict"
    /\ idx < Len(files.data)
    /\ pc' = "failed"
    /\ failed' = "sink"
    /\ events' = Append(events, Ev("upload_raise", BlobName(files.data[idx + 1].k)))
    /\ UNCHANGED << website_link, files, idx, sessions, harvestVars, sinkVars, curateVars >>

\* The upload loop is exhausted: "Upload complete!".
UploadDone ==
    /\ pc = "upload"
    /\ files.kind = "dict"
    /\ idx = Len(files.data)
    /\ pc' = "done"
    /\ UNCHANGED << failed, website_link, files, idx, sessions, harvestVars,
                    sinkVars, events, curateVars >>

\* BlobUploader.run.  After gather_data self.files is a CrawledResult, so
\* run never takes a pass of the upload loop: those are actions of SinkNext.
Next ==
    \/ RunGatherData
    \/ OpenDiscoverySession
    \/ DiscoverOk
    \/ DiscoverFail
    \/ OpenHarvestSession
    \/ FetchStart
    \/ FetchOk
    \/ FetchFail
    \/ HarvestDone
    \/ DeriveContainerName
    \/ CreateContainerNew
    \/ CreateContainerExists
    \/ CreateContainerFail
    \/ DeleteBlob
    \/ DeleteBlobFail
    \/ UploadItemsAttributeError

Spec == Init /\ [][Next]_vars

(* ------------------- create_or_update_blob on its own ----------------- *)

\* The keys of the content maps handed in directly.
DictKeys ==
    { short_link(S_https \o S_www \o S_example \o S_com \o S_about),
      short_link(S_https \o S_example \o S_com \o S_about),
      short_link(S_http \o S_www \o S_example \o S_com \o S_about),
      <<"h","o","m","e">> }

\* The dicts of at most MaxEntries entries over DictKeys and Bodies.
Dicts ==
    { d \in UNION { [1..n -> [k : DictKeys, v : Bodies]] : n \in 0..MaxEntries } :
        \A i, j \in 1..Len(d) : i # j => d[i].k # d[j].k }

\* create_or_update_blob(container_name) called with self.files a dict, as
\* __init__ leaves it and documents it, or a CrawledResult, as gather_data
\* leaves it.
SinkInit ==
    /\ pc = "create"
    /\ failed = "none"
    /\ website_link \in Seeds
    /\ \E kind \in {"dict", "CrawledResult"}, d \in Dicts :
          files = [kind |-> kind, data |-> d]
    /\ sessions = {}
    /\ inflight = 0
    /\ link_set = {}
    /\ todo = {}
    /\ cur = <<>>
    /\ clean_data_dict = <<>>
    /\ keys_to_remove = <<>>
    /\ idx = 0
    /\ container_name = get_container_name(website_link)
    /\ container \in Containers
    /\ to_delete = {}
    /\ events = <<>>
    /\ stored = <<>>
    /\ oracleLog = <<>>
    /\ dict0 = <<>>
    /\ container0 = container

SinkNext ==
    \/ CreateContainerNew
    \/ CreateContainerExists
    \/ CreateContainerFail
    \/ DeleteBlob
    \/ DeleteBlobFail
    \/ UploadItemsAttributeError
    \/ UploadBlob
    \/ UploadBlobFail
    \/ UploadDone

SinkSpec == SinkInit /\ [][SinkNext]_vars

(* ------------------------ Crawler.check_with_ai ----------------------- *)

\* A variant of IsUseless that looks at the response as it came.
IsUselessCaseSensitive(response) == Contains(response, S_useless)

\* answer = response.choices[0].message.content.lower(); "useless" in answer
IsUseless(response) == Contains(Lower(response), S_useless)

restOfCurate == << failed, website_link, files, sessions, link_set, todo, cur, stored,
                   inflight, sinkVars, events >>

\* A variant of OracleAnswer that pops a useless entry at once.
OracleAnswerPopNow ==
    /\ pc = "classify"
    /\ idx < Len(clean_data_dict)
    /\ LET key == clean_data_dict[idx + 1].k IN
       \E response \in Responses :
          /\ oracleLog' = Append(oracleLog, [key |-> key, response |-> response, ok |-> TRUE])
          /\ clean_data_dict' = IF IsUseless(response) THEN DictPop(clean_data_dict, key)
                                ELSE clean_data_dict
          /\ idx' = IF IsUseless(response) THEN idx ELSE idx + 1
    /\ UNCHANGED << pc, keys_to_remove, dict0, failed, website_link, files, sessions,
                    link_set, todo, cur, stored, inflight, sinkVars, events >>

\* One pass of "for key, value in clean_data_dict.items()": the oracle
\* answers, and a key whose answer holds "useless" is appended to
\* keys_to_remove.
OracleAnswer ==
    /\ pc = "classify"
    /\ idx < Len(clean_data_dict)
    /\ LET key == clean_data_dict[idx + 1].k IN
       \E response \in Responses :
          /\ oracleLog' = Append(oracleLog, [key |-> key, response |-> response, ok |-> TRUE])
          /\ keys_to_remove' = IF IsUseless(response) THEN Append(keys_to_remove, key)
                               ELSE keys_to_remove
    /\ idx' = idx + 1
    /\ UNCHANGED << pc, clean_data_dict, dict0, restOfCurate >>

\* client.chat.completions.create raises, or the response holds no text
\* and .lower() raises: the exception leaves check_with_ai inside the loop.
OracleFail ==
    /\ pc = "classify"
    /\ idx < Len(clean_data_dict)
    /\ oracleLog' = Append(oracleLog,
          [key |-> clean_data_dict[idx + 1].k, response |-> <<>>, ok |-> FALSE])
    /\ pc' = "failed"
    /\ failed' = "curation"
    /\ UNCHANGED << clean_data_dict, keys_to_remove, idx, dict0, website_link, files,
                    sessions, link_set, todo, cur, stored, inflight, sinkVars, events >>

\* The classification loop is exhausted.
ClassifyDone ==
    /\ pc = "classify"
    /\ idx = Len(clean_data_dict)
    /\ pc' = "remove"
    /\ idx' = 0
    /\ UNCHANGED << clean_data_dict, curateVars, restOfCurate >>

\* One pass of "for useless_key in keys_to_remove":
\* clean_data_dict.pop(useless_key, None).
PopUseless ==
    /\ pc = "remove"
    /\ idx < Len(keys_to_remove)
    /\ clean_data_dict' = DictPop(clean_data_dict, keys_to_remove[idx + 1])
    /\ idx' = idx + 1
    /\ UNCHANGED << pc, curateVars, restOfCurate >>

\* return clean_data_dict: the dict that was passed in, which
\* CrawledResult.check_with_ai stores back in self.data_dict.
CurateReturn ==
    /\ pc = "remove"
    /\ idx = Len(keys_to_remove)
    /\ pc' = "done"
    /\ UNCHANGED << clean_data_dict, idx, curateVars, restOfCurate >>

\* check_with_ai(clean_data_dict, model, api_key) called on a content map.
CurateInit ==
    /\ pc = "classify"
    /\ failed = "none"
    /\ website_link = <<>>
    /\ files = [kind |-> "dict", data |-> <<>>]
    /\ sessions = {}
    /\ inflight = 0
    /\ link_set = {}
    /\ todo = {}
    /\ cur = <<>>
    /\ clean_data_dict \in Dicts
    /\ keys_to_remove = <<>>
    /\ idx = 0
    /\ container_name = <<>>
    /\ container = [exists |-> FALSE, blobs |-> NoBlobs]
    /\ to_delete = {}
    /\ events = <<>>
    /\ stored = <<>>
    /\ oracleLog = <<>>
    /\ dict0 = clean_data_dict
    /\ container0 = container

CurateNext ==
    \/ OracleAnswer
    \/ OracleFail
    \/ ClassifyDone
    \/ PopUseless
    \/ CurateReturn

CurateSpec == CurateInit /\ [][CurateNext]_vars

(* ---------------------- vocabulary of the properties ------------------ *)

\* The positions of the history at which one of the named calls was made.
EvIdx(names) == { i \in 1..Len(events) : events[i].ev \in names }

Count(names) == Cardinality(EvIdx(names))

DiscoveryEvents == { "open_discovery", "discover", "close_discovery" }

HarvestEvents == { "open_harvest", "fetch_start", "fetch_end", "fetch_raise", "close_harvest" }

SinkEvents ==
    { "create_container", "container_exists", "create_raise", "delete_blob",
      "delete_raise", "upload_blob", "upload_raise", "attribute_error" }

\* The sink stage has made a call to the storage service.
SinkStarted == EvIdx(SinkEvents) # {}

\* create_or_update_blob has been entered.
InSinkStage == SinkStarted \/ pc \in {"create", "delete", "upload"}

\* run has not left gather_data, or an exception of gather_data ended it.
BeforeSinkStage ==
    \/ pc \in {"new", "gather", "discover", "links", "loop", "await"}
    \/ pc = "failed" /\ failed \in {"discovery", "harvest"}

\* The keys the code derives for the links of the link set.
DerivedKeys == { short_link(l) : l \in link_set }

\* The last store of the harvest under a key.
LastStore(key) ==
    stored[CHOOSE i \in 1..Len(stored) :
              /\ stored[i].key = key
              /\ \A j \in 1..Len(stored) : stored[j].key = key => j <= i]

UpperChar(c) ==
    CASE c = "u" -> "U" [] c = "s" -> "S" [] c = "e" -> "E" [] c = "l" -> "L"
      [] OTHER -> c

\* The response holds the letters of "useless" in a row, each in either case.
SaysUselessIgnoringCase(response) ==
    \E i \in 0..(Len(response) - Len(S_useless)) :
        \A j \in 1..Len(S_useless) :
            response[i + j] \in { S_useless[j], UpperChar(S_useless[j]) }

\* The oracle's response for the entry under a key.
Verdict(key) ==
    oracleLog[CHOOSE i \in 1..Len(oracleLog) : oracleLog[i].key = key].response

\* The key derivation as section 4.2 of the specification words it: the
\* scheme prefix goes, then a leading "www.", then the ".com" token, and
\* only then every path separator becomes an underscore.
SpecifiedKey(url) ==
    LET noScheme == IF StartsWith(url, S_https) THEN Drop(url, Len(S_https))
                    ELSE IF StartsWith(url, S_http) THEN Drop(url, Len(S_http))
                    ELSE url
        noWww    == IF StartsWith(noScheme, S_www) THEN Drop(noScheme, Len(S_www))
                    ELSE noScheme
    IN  Replace(Replace(noWww, S_com, <<>>), <<"/">>, <<"_">>)

(* ------------------------------- C1 ----------------------------------- *)

C3_NothingWrittenOnAnyFailure == pc = "failed" => container = container0

\* C3 as amended: while run is in gather_data, and when link discovery or
\* the harvest of a link fails, nothing has been written to the sink: the
\* container is as it was and no call to the storage service has been made.
C3_NothingWrittenBeforeSinkStage ==
    BeforeSinkStage => container = container0 /\ ~SinkStarted

\* C3: the harvest failed on a later link, after an entry was stored, with
\* a container that held objects.
C3_Witness ==
    /\ pc = "failed"
    /\ failed = "harvest"
    /\ clean_data_dict # <<>>
    /\ DOMAIN container0.blobs # {}

(* ------------------------------- C4 ----------------------------------- *)

\* C4: self.files is a dictionary mapping page keys to page texts, at
\* construction and after gather_data.
C4_FilesIsDict == files.kind = "dict"

(* ------------------------------- C5 ----------------------------------- *)

\* C5: the result of check_with_ai has no key the input had not, lacks a key
\* of the input exactly when the oracle's response for that entry holds
\* "useless" in any mix of cases, and keeps the text of every key it retains.
C5_CurationExact ==
    pc = "done" =>
        /\ Keys(clean_data_dict) \subseteq Keys(dict0)
        /\ Len(clean_data_dict) <= Len(dict0)
        /\ \A key \in Keys(dict0) :
              (key \notin Keys(clean_data_dict)) <=> SaysUselessIgnoringCase(Verdict(key))
        /\ \A key \in Keys(clean_data_dict) :
              DictGet(clean_data_dict, key) = DictGet(dict0, key)

\* C5: curation returned having removed an entry on a response that is not
\* in lower case and having retained another.
C5_Witness ==
    /\ pc = "done"
    /\ clean_data_dict # <<>>
    /\ \E i \in 1..Len(oracleLog) :
          /\ oracleLog[i].response # Lower(oracleLog[i].response)
          /\ oracleLog[i].key \notin Keys(clean_data_dict)

(* ------------------------------- C6 ----------------------------------- *)

\* C6: the harvested map has one entry per derived key: when the harvest
\* returns, its key set is the set of derived keys of the link set; and the
\* value under a key is the body of the link stored last under it.
C6_HarvestLastWriteWins ==
    /\ \A i, j \in 1..Len(clean_data_dict) :
          i # j => clean_data_dict[i].k # clean_data_dict[j].k
    /\ Keys(clean_data_dict) = { stored[i].key : i \in 1..Len(stored) }
    /\ \A key \in Keys(clean_data_dict) :
          DictGet(clean_data_dict, key) = LastStore(key).body
    /\ files.kind = "CrawledResult" => files.data = clean_data_dict
    /\ pc = "name" =>
          LET derived == DerivedKeys IN
          /\ Keys(files.data) = derived
          /\ Len(files.data) = Cardinality(derived)

\* C6: the harvest returned after two distinct links derived the same key
\* and were fetched with different bodies.
C6_Witness ==
    /\ files.kind = "CrawledResult"
    /\ \E i, j \in 1..Len(stored) :
          /\ i < j
          /\ stored[i].key = stored[j].key
          /\ stored[i].link # stored[j].link
          /\ stored[i].body # stored[j].body

(* ------------------------------- C7 ----------------------------------- *)

C8_KeyAsSpecified ==
    \A i \in 1..Len(stored) : stored[i].key = SpecifiedKey(stored[i].link)

(* ------------------------------- C9 ----------------------------------- *)

\* C9: a harvest opens one session, after discovery's session was closed;
\* every per-link fetch is made while it is open; at most one fetch is in
\* flight and a fetch returns before the next is issued; a harvest that
\* returns has issued exactly one fetch per link of the link set; and the
\* session is closed when the harvest has ended, by return or by exception.
C9_HarvestSession ==
    /\ Count({"open_harvest"}) <= 1
    /\ \A j \in EvIdx({"open_harvest"}) : \E i \in EvIdx({"close_discovery"}) : i < j
    /\ "harvest" \in sessions => "discovery" \notin sessions
    /\ \A j \in EvIdx({"fetch_start", "fetch_end", "fetch_raise"}) :
          /\ \E i \in EvIdx({"open_harvest"}) : i < j
          /\ \A i \in EvIdx({"close_harvest"}) : j < i
    /\ inflight > 0 => "harvest" \in sessions
    /\ inflight <= 1
    /\ \A i, j \in EvIdx({"fetch_start"}) :
          i < j => \E m \in EvIdx({"fetch_end"}) : i < m /\ m < j
    /\ files.kind = "CrawledResult" =>
          /\ Count({"fetch_start"}) = Cardinality(link_set)
          /\ \A l \in link_set :
                Cardinality({ i \in EvIdx({"fetch_start"}) : events[i].arg = l }) = 1
    /\ pc \notin {"new", "gather", "discover", "links", "loop", "await"} =>
          /\ sessions = {}
          /\ Count({"close_harvest"}) = Count({"open_harvest"})

\* C9: the second fetch of a harvest failed and ended it.
C9_Witness ==
    /\ pc = "failed"
    /\ failed = "harvest"
    /\ Count({"fetch_start"}) = 2

(* ------------------------------- C10 ---------------------------------- *)

\* C10: check_with_ai removes nothing before every entry has been judged:
\* while entries are being judged, and when an oracle call has failed, the
\* map is as it was passed in; a failed call is the last call made; and
\* removal starts only after one answered call per entry.
C10_FailureLeavesMapUnchanged ==
    /\ pc \in {"classify", "failed"} => clean_data_dict = dict0
    /\ \A i \in 1..(Len(oracleLog) - 1) : oracleLog[i].ok
    /\ pc = "failed" => oracleLog # <<>> /\ ~oracleLog[Len(oracleLog)].ok
    /\ pc \in {"remove", "done"} =>
          /\ Len(oracleLog) = Len(dict0)
          /\ \A i \in 1..Len(oracleLog) : oracleLog[i].ok /\ oracleLog[i].key = dict0[i].k

\* C10: an oracle call failed after an earlier entry was judged useless.
C10_Witness ==
    /\ pc = "failed"
    /\ failed = "curation"
    /\ keys_to_remove # <<>>

====
